---- MODULE Spec2Model ----
(***************************************************************************)
(* Model of the accuracy-metrics helper calculate_accuracy that the        *)
(* Titanic notebooks repeat, and of the call that applies it to a pair of  *)
(* label sequences.                                                        *)
(*                                                                         *)
(* Numbers.  The function works on NumPy float64 scalars.  A value is      *)
(* modelled as a record [k, n, d]:                                         *)
(*   k = "fin"  the rational n/d in lowest terms, d > 0                    *)
(*   k = "nan"  not-a-number                                               *)
(*   k = "inf"  infinity with the sign of n                                *)
(*   k = "err"  the evaluation raised (ZeroDivisionError); NumPy's         *)
(*              division never produces it, Python's int division would    *)
(* Finite values are exact rationals: float64 rounding is not modelled, so *)
(* equalities between metrics are equalities of the exact quotients.       *)
(*                                                                         *)
(* Sequences.  An argument is a record [type, dtype, data]: type "list"    *)
(* or "ndarray", dtype "int" (elements 0/1) or "bool" (elements            *)
(* FALSE/TRUE).  A comparison with a Python list on the left gives one     *)
(* Python bool, modelled as type "scalar" with a one-element data.         *)
(*                                                                         *)
(* Specifications.  Spec and SpecUnvalidated: one call of                  *)
(* calculate_accuracy.  SpecCalls: repeated calls and their dictionaries.  *)
(* SpecSampler: one call of reduce_majority_class or increase_majority,    *)
(* the random draws chosen freely.  SpecImpute: impute_missing_with_median *)
(* on the Age column.  SpecFolds: the fold loop of the under-sampling      *)
(* sweep, the random draws taken from the shared generator state.          *)
(* SpecCarriers: one call over every carrier of the labels, float arrays   *)
(* included.  SpecSweep: the k-fold loop that sweeps the classification    *)
(* threshold.  SpecCabin: the loop that splits the Cabin column.           *)
(* SpecElimination: the backward feature elimination loop, the measured    *)
(* mean ROC AUC of each candidate an input.  Each leaves the variables of  *)
(* the others at their idle values.                                        *)
(***************************************************************************)
EXTENDS Integers, Sequences, FiniteSets, TLC

VARIABLES
    \* one call of calculate_accuracy
    observed, predicted, results,
    \* the objects calls hand back to their caller, and the calls made so far
    heap, history,
    \* one call of reduce_majority_class or increase_majority
    X_train_full, y_train_full, maj_sample_size, X_train, y_train,
    \* the Series objects of the preprocessing notebook and their names
    objects, data_Age, age, imputed,
    \* the fold loop of the under-sampling sweep: the data, NumPy's global
    \* random generator, the folds still to run, the per-fold scores and
    \* their means; which fold ran when and on which draws
    X_np, y_np, random_state, folds_left, replicate_scores, results_mean,
    processed, drawn,
    \* the threshold sweep: the fold under way, the inner loop's position,
    \* the per-fold lists, the results arrays; what the folds still to come
    \* are, what each call returned and how often each column was written
    sweep_y_test, probability_survival, folds_to_come, loop_index, cutoff_index,
    threshold_lists, results_arrays, results_auc, returned, column_writes,
    \* the cabin loop of the preprocessing notebook: the Cabin column, its
    \* text form, the row the loop is at and the four lists it fills
    data_Cabin, cabin, cabin_index, CabinLetter, CabinLetterImputed, CabinNumber,
    CabinNumberImputed,
    \* backward feature elimination: the lists and trackers of the while
    \* loop; what the round just run started from and measured
    available_features, chosen_features, roc_auc_by_feature_number,
    reference_auc, best_auc, run, number_of_features,
    available_before, reference_before, feature_aucs,
    \* where the program is
    pc

callVars == <<observed, predicted, results>>

heapVars == <<heap, history>>

samplerVars == <<X_train_full, y_train_full, maj_sample_size, X_train, y_train>>

imputeVars == <<objects, data_Age, age, imputed>>

foldVars == <<X_np, y_np, random_state, folds_left, replicate_scores,
              results_mean, processed, drawn>>

sweepVars == <<sweep_y_test, probability_survival, folds_to_come, loop_index, cutoff_index,
    threshold_lists, results_arrays, results_auc, returned, column_writes>>

cabinVars == <<data_Cabin, cabin, cabin_index, CabinLetter, CabinLetterImputed, CabinNumber,
    CabinNumberImputed>>

elimVars == <<available_features, chosen_features, roc_auc_by_feature_number,
    reference_auc, best_auc, run, number_of_features,
    available_before, reference_before, feature_aucs>>

vars == <<callVars, heapVars, samplerVars, imputeVars, foldVars, sweepVars, cabinVars, elimVars, pc>>

\* Longest run of calls explored.
MaxCalls == 3

\* Most rows in a training set handed to the resampling functions.
MaxRows == 3

\* Largest sample size asked of the resampling functions.
MaxSample == 3

\* Longest label sequence explored.
MaxLen == 5

\* Longest sequence explored when the labels are not restricted to 0 and 1.
MaxAnyLen == 3

----------------------------------------------------------------------------
(* float64 values and arithmetic *)

Abs(x) == IF x < 0 THEN -x ELSE x

Sign(x) == IF x < 0 THEN -1 ELSE 1

RECURSIVE GCD(_, _)
GCD(a, b) == IF b = 0 THEN a ELSE GCD(b, a % b)

\* The finite value n/d (d > 0), in lowest terms.
Fin(n, d) ==
    LET g == GCD(Abs(n), d)
    IN  [k |-> "fin", n |-> n \div g, d |-> d \div g]

NaN == [k |-> "nan", n |-> 0, d |-> 0]

Inf(s) == [k |-> "inf", n |-> s, d |-> 0]

Err == [k |-> "err", n |-> 0, d |-> 0]

\* An integer (np.int64) promoted to float64.
ToFloat(i) == Fin(i, 1)

IsFinite(x) == x.k = "fin"

IsNaN(x) == x.k = "nan"

\* x <= y for finite x, y.
Leq(x, y) == x.n * y.d <= y.n * x.d

Zero == Fin(0, 1)

One == Fin(1, 1)

Two == Fin(2, 1)

\* float64 addition.
float_add(a, b) ==
    IF a.k = "err" \/ b.k = "err" THEN Err
    ELSE IF a.k = "nan" \/ b.k = "nan" THEN NaN
    ELSE IF a.k = "inf" /\ b.k = "inf" THEN (IF a.n = b.n THEN a ELSE NaN)
    ELSE IF a.k = "inf" THEN a
    ELSE IF b.k = "inf" THEN b
    ELSE Fin(a.n * b.d + b.n * a.d, a.d * b.d)

\* float64 negation.
float_neg(a) == IF a.k \in {"fin", "inf"} THEN [a EXCEPT !.n = -a.n] ELSE a

\* float64 subtraction.
float_sub(a, b) == float_add(a, float_neg(b))

\* float64 multiplication.
float_mul(a, b) ==
    IF a.k = "err" \/ b.k = "err" THEN Err
    ELSE IF a.k = "nan" \/ b.k = "nan" THEN NaN
    ELSE IF a.k = "inf" \/ b.k = "inf"
         THEN (IF a.n = 0 \/ b.n = 0 THEN NaN ELSE Inf(Sign(a.n) * Sign(b.n)))
    ELSE Fin(a.n * b.n, a.d * b.d)

\* a / b for a divisor that is not zero.
ieee_quotient(a, b) ==
    IF a.k = "inf" /\ b.k = "inf" THEN NaN
    ELSE IF a.k = "inf" THEN Inf(Sign(a.n) * Sign(b.n))
    ELSE IF b.k = "inf" THEN Fin(0, 1)
    ELSE Fin(a.n * b.d * Sign(b.n), a.d * Abs(b.n))

\* Variant: Python's division of plain numbers, where a zero divisor raises.
py_divide(a, b) ==
    IF a.k = "err" \/ b.k = "err" THEN Err
    ELSE IF a.k = "nan" \/ b.k = "nan" THEN NaN
    ELSE IF b.k = "fin" /\ b.n = 0 THEN Err
    ELSE ieee_quotient(a, b)

\* Variant: a division that hides a zero divisor behind the value 0.
safe_divide(a, b) ==
    IF a.k = "err" \/ b.k = "err" THEN Err
    ELSE IF a.k = "nan" \/ b.k = "nan" THEN NaN
    ELSE IF b.k = "fin" /\ b.n = 0 THEN Fin(0, 1)
    ELSE ieee_quotient(a, b)

\* The operator / on NumPy scalars (np.int64 or np.float64 operands): true
\* division with IEEE results, 0/0 = nan and x/0 = +-inf, never raising.
true_divide(a, b) ==
    IF a.k = "err" \/ b.k = "err" THEN Err
    ELSE IF a.k = "nan" \/ b.k = "nan" THEN NaN
    ELSE IF b.k = "fin" /\ b.n = 0
         THEN (IF a.k = "fin" /\ a.n = 0 THEN NaN ELSE Inf(Sign(a.n)))
    ELSE ieee_quotient(a, b)

----------------------------------------------------------------------------
(* lists and arrays *)

\* Element i of x as an integer (a bool counts as 0 or 1).
AsInt(x, i) ==
    IF x.dtype = "bool" THEN (IF x.data[i] THEN 1 ELSE 0) ELSE x.data[i]

\* np.array(x) of a list: an array of the same elements.
np_array(x) == [type |-> "ndarray", dtype |-> x.dtype, data |-> x.data]

\* Variant: no conversion, the argument is used as it came.
as_array_skipped(x) == x

\* The conversion at the head of the function: only a list is converted.
as_array(x) == IF x.type = "list" THEN np_array(x) ELSE x

\* x == v for a number v: elementwise on an array; a list is never equal
\* to a number, which gives the single value False.
eq_scalar(x, v) ==
    IF x.type = "list"
    THEN [type |-> "scalar", dtype |-> "bool", data |-> <<FALSE>>]
    ELSE [type |-> x.type, dtype |-> "bool",
          data |-> [i \in 1..Len(x.data) |-> AsInt(x, i) = v]]

\* Index i of x under broadcasting (a one-element operand is repeated).
Bc(x, i) == IF Len(x.data) = 1 THEN 1 ELSE i

BcLen(x, y) == IF Len(x.data) >= Len(y.data) THEN Len(x.data) ELSE Len(y.data)

\* x == y for two sequences: elementwise as soon as one is an array; two
\* lists compare as wholes and give a single value.
eq_array(x, y) ==
    IF x.type = "list" /\ y.type = "list"
    THEN [type |-> "scalar", dtype |-> "bool",
          data |-> << /\ Len(x.data) = Len(y.data)
                      /\ \A i \in 1..Len(x.data) : AsInt(x, i) = AsInt(y, i) >>]
    ELSE [type |-> "ndarray", dtype |-> "bool",
          data |-> [i \in 1..BcLen(x, y) |->
                       AsInt(x, Bc(x, i)) = AsInt(y, Bc(y, i))]]

\* x & y on boolean operands.
and_array(x, y) ==
    [type |-> IF x.type = "scalar" /\ y.type = "scalar" THEN "scalar" ELSE "ndarray",
     dtype |-> "bool",
     data |-> [i \in 1..BcLen(x, y) |-> x.data[Bc(x, i)] /\ y.data[Bc(y, i)]]]

\* np.sum(x): the number of True elements, an np.int64.
np_sum(x) == Cardinality({i \in 1..Len(x.data) : AsInt(x, i) = 1})

\* np.mean(x) of a boolean operand.
np_mean(x) == true_divide(ToFloat(np_sum(x)), ToFloat(Len(x.data)))

----------------------------------------------------------------------------
(* calculate_accuracy: the intermediate values, on the converted arrays *)

observed_positives(obs) == eq_scalar(obs, 1)

\* Variant: the negatives mask taken with the positives' comparison.
observed_negatives_as_positives(obs) == eq_scalar(obs, 1)

observed_negatives(obs) == eq_scalar(obs, 0)

predicted_positives(pred) == eq_scalar(pred, 1)

predicted_negatives(pred) == eq_scalar(pred, 0)

true_positives(obs, pred) ==
    and_array(eq_scalar(predicted_positives(pred), 1),
              eq_scalar(observed_positives(obs), 1))

false_positives(obs, pred) ==
    and_array(eq_scalar(predicted_positives(pred), 1),
              eq_scalar(observed_positives(obs), 0))

true_negatives(obs, pred) ==
    and_array(eq_scalar(predicted_negatives(pred), 1),
              eq_scalar(observed_negatives(obs), 1))

\* Variant: the predicted positives compared with the observed negatives.
accuracy_crossed(obs, pred) ==
    np_mean(eq_array(predicted_positives(pred), observed_negatives(obs)))

\* Variant: agreement counted on the positive class only.
accuracy_positives_only(obs, pred) == np_mean(true_positives(obs, pred))

accuracy(obs, pred) == np_mean(eq_array(pred, obs))

\* Variant: precision taken over the observed instead of the predicted positives.
precision_over_observed(obs, pred) ==
    true_divide(ToFloat(np_sum(true_positives(obs, pred))),
                ToFloat(np_sum(observed_positives(obs))))

precision(obs, pred) ==
    true_divide(ToFloat(np_sum(true_positives(obs, pred))),
                ToFloat(np_sum(true_positives(obs, pred))
                        + np_sum(false_positives(obs, pred))))

\* Variant: recall taken over the predicted instead of the observed positives.
recall_over_predicted(obs, pred) ==
    true_divide(ToFloat(np_sum(true_positives(obs, pred))),
                ToFloat(np_sum(predicted_positives(pred))))

recall(obs, pred) ==
    true_divide(ToFloat(np_sum(true_positives(obs, pred))),
                ToFloat(np_sum(observed_positives(obs))))

sensitivity(obs, pred) == recall(obs, pred)

\* Variant: the harmonic mean without its factor 2.
f1_not_doubled(obs, pred) ==
    true_divide(float_mul(precision(obs, pred), recall(obs, pred)),
                float_add(precision(obs, pred), recall(obs, pred)))

f1(obs, pred) ==
    float_mul(Two,
              true_divide(float_mul(precision(obs, pred), recall(obs, pred)),
                          float_add(precision(obs, pred), recall(obs, pred))))

\* Variant: specificity taken over the observed positives.
specificity_over_positives(obs, pred) ==
    true_divide(ToFloat(np_sum(true_negatives(obs, pred))),
                ToFloat(np_sum(observed_positives(obs))))

specificity(obs, pred) ==
    true_divide(ToFloat(np_sum(true_negatives(obs, pred))),
                ToFloat(np_sum(observed_negatives(obs))))

positive_likelihood(obs, pred) ==
    true_divide(sensitivity(obs, pred), float_sub(One, specificity(obs, pred)))

negative_likelihood(obs, pred) ==
    true_divide(float_sub(One, sensitivity(obs, pred)), specificity(obs, pred))

\* Variant: the false positive rate taken from the sensitivity.
false_positive_rate_of_sensitivity(obs, pred) ==
    float_sub(One, sensitivity(obs, pred))

false_positive_rate(obs, pred) == float_sub(One, specificity(obs, pred))

false_negative_rate(obs, pred) == float_sub(One, sensitivity(obs, pred))

true_positive_rate(obs, pred) == sensitivity(obs, pred)

\* Variant: the true negative rate aliased to the sensitivity.
true_negative_rate_of_sensitivity(obs, pred) == sensitivity(obs, pred)

true_negative_rate(obs, pred) == specificity(obs, pred)

positive_predictive_value(obs, pred) ==
    true_divide(ToFloat(np_sum(true_positives(obs, pred))),
                ToFloat(np_sum(observed_positives(obs))))

negative_predictive_value(obs, pred) ==
    true_divide(ToFloat(np_sum(true_negatives(obs, pred))),
                ToFloat(np_sum(observed_positives(obs))))

\* The whole function: convert lists, compute, fill the results dictionary.
calculate_accuracy(observed0, predicted0) ==
    LET obs  == as_array(observed0)
        pred == as_array(predicted0)
    IN  [observed_positive_rate    |-> np_mean(observed_positives(obs)),
         observed_negative_rate    |-> np_mean(observed_negatives(obs)),
         predicted_positive_rate   |-> np_mean(predicted_positives(pred)),
         predicted_negative_rate   |-> np_mean(predicted_negatives(pred)),
         accuracy                  |-> accuracy(obs, pred),
         precision                 |-> precision(obs, pred),
         recall                    |-> recall(obs, pred),
         f1                        |-> f1(obs, pred),
         sensitivity               |-> sensitivity(obs, pred),
         specificity               |-> specificity(obs, pred),
         positive_likelihood       |-> positive_likelihood(obs, pred),
         negative_likelihood       |-> negative_likelihood(obs, pred),
         false_positive_rate       |-> false_positive_rate(obs, pred),
         false_negative_rate       |-> false_negative_rate(obs, pred),
         true_positive_rate        |-> true_positive_rate(obs, pred),
         true_negative_rate        |-> true_negative_rate(obs, pred),
         positive_predictive_value |-> positive_predictive_value(obs, pred),
         negative_predictive_value |-> negative_predictive_value(obs, pred)]

----------------------------------------------------------------------------
(* the call *)

\* The label sequences a caller passes: a Python list or an array of 0/1,
\* or of booleans (the threshold sweep passes probability >= cutoff).
Labels(dtype) == IF dtype = "bool" THEN BOOLEAN ELSE {0, 1}

SeqsOfLen(S, n) == [1..n -> S]

Inputs(n) ==
    { [type |-> t, dtype |-> dt, data |-> s] :
        t \in {"list", "ndarray"}, dt \in {"int"}, s \in SeqsOfLen(Labels("int"), n) }
    \cup
    { [type |-> "ndarray", dtype |-> "bool", data |-> s] :
        s \in SeqsOfLen(Labels("bool"), n) }

NoResults == <<>>

\* No object handed back and no call made yet.
HeapIdle == heap = <<>> /\ history = <<>>

\* No training set handed to a resampling function.
SamplerIdle ==
    /\ X_train_full = <<>> /\ y_train_full = <<>> /\ maj_sample_size = 0
    /\ X_train = <<>> /\ y_train = <<>>

\* No call of calculate_accuracy under way.
CallIdle == observed = <<>> /\ predicted = <<>> /\ results = NoResults

\* No Series created.
ImputeIdle == objects = <<>> /\ data_Age = 0 /\ age = 0 /\ imputed = <<>>

\* No fold loop started.
FoldsIdle ==
    /\ X_np = <<>> /\ y_np = <<>> /\ random_state = <<>> /\ folds_left = {}
    /\ replicate_scores = <<>> /\ results_mean = <<>>
    /\ processed = <<>> /\ drawn = <<>>

\* No threshold sweep started.
SweepIdle ==
    /\ sweep_y_test = <<>> /\ probability_survival = <<>> /\ folds_to_come = 0
    /\ loop_index = 0 /\ cutoff_index = 0 /\ threshold_lists = <<>>
    /\ results_arrays = <<>> /\ results_auc = <<>>
    /\ returned = <<>> /\ column_writes = <<>>

\* No cabin data read.
CabinIdle ==
    /\ data_Cabin = <<>> /\ cabin = <<>> /\ cabin_index = 0
    /\ CabinLetter = <<>> /\ CabinLetterImputed = <<>>
    /\ CabinNumber = <<>> /\ CabinNumberImputed = <<>>

\* No feature selection started.
EliminationIdle ==
    /\ available_features = <<>> /\ chosen_features = <<>>
    /\ roc_auc_by_feature_number = <<>> /\ reference_auc = <<>>
    /\ best_auc = <<>> /\ run = 0 /\ number_of_features = 0
    /\ available_before = <<>> /\ reference_before = <<>> /\ feature_aucs = <<>>

\* The parts of the program a single call does not touch.
outsideCall == <<heapVars, samplerVars, imputeVars, foldVars, sweepVars, cabinVars, elimVars>>

IdleOutsideCall == HeapIdle /\ SamplerIdle /\ ImputeIdle /\ FoldsIdle /\ SweepIdle /\ CabinIdle /\ EliminationIdle

\* The parts a run of calls, a resampling, an imputation and a fold loop do
\* not touch.
outsideCalls == <<callVars, samplerVars, imputeVars, foldVars, sweepVars, cabinVars, elimVars>>

IdleOutsideCalls == CallIdle /\ SamplerIdle /\ ImputeIdle /\ FoldsIdle /\ SweepIdle /\ CabinIdle /\ EliminationIdle

outsideSampler == <<callVars, heapVars, imputeVars, foldVars, sweepVars, cabinVars, elimVars>>

IdleOutsideSampler == CallIdle /\ HeapIdle /\ ImputeIdle /\ FoldsIdle /\ SweepIdle /\ CabinIdle /\ EliminationIdle

outsideImpute == <<callVars, heapVars, samplerVars, foldVars, sweepVars, cabinVars, elimVars>>

IdleOutsideImpute == CallIdle /\ HeapIdle /\ SamplerIdle /\ FoldsIdle /\ SweepIdle /\ CabinIdle /\ EliminationIdle

outsideFolds == <<callVars, heapVars, imputeVars, sweepVars, cabinVars, elimVars>>

IdleOutsideFolds == CallIdle /\ HeapIdle /\ ImputeIdle /\ SweepIdle /\ CabinIdle /\ EliminationIdle

outsideSweep == <<callVars, heapVars, samplerVars, imputeVars, foldVars, cabinVars, elimVars>>

IdleOutsideSweep == CallIdle /\ HeapIdle /\ SamplerIdle /\ ImputeIdle /\ FoldsIdle /\ CabinIdle /\ EliminationIdle

outsideCabin == <<callVars, heapVars, samplerVars, imputeVars, foldVars, sweepVars, elimVars>>

IdleOutsideCabin == CallIdle /\ HeapIdle /\ SamplerIdle /\ ImputeIdle /\ FoldsIdle /\ SweepIdle /\ EliminationIdle

outsideElimination == <<callVars, heapVars, samplerVars, imputeVars, foldVars, sweepVars, cabinVars>>

IdleOutsideElimination == CallIdle /\ HeapIdle /\ SamplerIdle /\ ImputeIdle /\ FoldsIdle /\ SweepIdle /\ CabinIdle

Init ==
    /\ \E n \in 1..MaxLen :
          /\ observed \in Inputs(n)
          /\ predicted \in Inputs(n)
    /\ results = NoResults
    /\ pc = "call"
    /\ IdleOutsideCall

\* An evaluation that raised leaves no mapping behind.
Raises(r) == \E m \in DOMAIN r : r[m].k = "err"

\* x sorted in place (x.sort()): the zeros first.
SortedInPlace(x) ==
    LET zeros == Cardinality({i \in 1..Len(x.data) : AsInt(x, i) = 0})
    IN  [x EXCEPT !.data =
            [i \in 1..Len(x.data) |->
                IF x.dtype = "bool" THEN i > zeros
                ELSE IF i > zeros THEN 1 ELSE 0]]

\* Variant: a call that works on the caller's sequences in place.
CallInPlace ==
    /\ pc = "call"
    /\ results' = calculate_accuracy(observed, predicted)
    /\ pc' = "returned"
    /\ observed' = SortedInPlace(observed)
    /\ predicted' = SortedInPlace(predicted)
    /\ UNCHANGED outsideCall

\* results = calculate_accuracy(observed, predicted)
Call ==
    /\ pc = "call"
    /\ LET r == calculate_accuracy(observed, predicted)
       IN  IF Raises(r)
           THEN /\ results' = NoResults
                /\ pc' = "raised"
           ELSE /\ results' = r
                /\ pc' = "returned"
    /\ UNCHANGED <<observed, predicted>>
    /\ UNCHANGED outsideCall

Next == Call

Spec == Init /\ [][Next]_vars

\* The same call on sequences nobody validated: integer labels that need
\* not be 0 or 1, in a list or an array.
AnyLabels == {0, 1, 2}

AnyInputs(n) ==
    { [type |-> t, dtype |-> "int", data |-> s] :
        t \in {"list", "ndarray"}, s \in SeqsOfLen(AnyLabels, n) }

InitUnvalidated ==
    /\ \E n \in 1..MaxAnyLen :
          /\ observed \in AnyInputs(n)
          /\ predicted \in AnyInputs(n)
    /\ results = NoResults
    /\ pc = "call"
    /\ IdleOutsideCall

SpecUnvalidated == InitUnvalidated /\ [][Next]_vars

\* Longest sequences explored when every carrier of the labels is tried.
MaxRepLen == 4

\* Every carrier of 0/1 labels: a list, an integer array, a float array
\* (its 0.0 and 1.0 compare equal to 0 and 1) and a boolean array, as the
\* threshold sweep passes for predicted.
Carriers(n) ==
    Inputs(n) \cup
    { [type |-> "ndarray", dtype |-> "float", data |-> s] :
        s \in SeqsOfLen({0, 1}, n) }

InitCarriers ==
    /\ \E n \in 1..MaxRepLen :
          /\ observed \in Carriers(n)
          /\ predicted \in Carriers(n)
    /\ results = NoResults
    /\ pc = "call"
    /\ IdleOutsideCall

SpecCarriers == InitCarriers /\ [][Next]_vars

----------------------------------------------------------------------------
(* repeated calls: each builds its results dictionary and hands it back *)

\* The arguments of the repeated calls: one-element lists of 0/1.
CallInputs ==
    { [type |-> "list", dtype |-> "int", data |-> s] : s \in SeqsOfLen({0, 1}, 1) }

\* Variant: one dictionary created once, outside the function, and filled
\* again by every call.
dict_shared(h) == 1

\* results = dict(): a new object, distinct from every object in the heap.
dict_new(h) == Len(h) + 1

\* The heap after the object ref has been given the value v.
Store(h, ref, v) ==
    [i \in (DOMAIN h) \cup {ref} |-> IF i = ref THEN v ELSE h[i]]

InitCalls ==
    /\ heap = <<>>
    /\ history = <<>>
    /\ pc = "calls"
    /\ IdleOutsideCalls

\* One more call, after any others: the function fills a dictionary of its
\* own and returns it; the caller keeps the reference.
CallAgain ==
    /\ pc = "calls"
    /\ Len(history) < MaxCalls
    /\ \E o \in CallInputs, p \in CallInputs :
          LET ref == dict_new(heap)
              r   == calculate_accuracy(o, p)
          IN  /\ heap' = Store(heap, ref, r)
              /\ history' = Append(history,
                     [observed |-> o, predicted |-> p, ref |-> ref,
                      returned |-> r, written |-> FALSE])
    /\ UNCHANGED <<outsideCalls, pc>>

\* What a caller stores into a mapping it was handed: no metric has it.
Scribble == Fin(-1, 1)

\* The caller changes an entry of a mapping it was handed earlier.
CallerWrites ==
    /\ pc = "calls"
    /\ \E i \in 1..Len(history) :
          /\ ~history[i].written
          /\ heap' = [heap EXCEPT ![history[i].ref].accuracy = Scribble]
          /\ history' = [history EXCEPT ![i].written = TRUE]
    /\ UNCHANGED <<outsideCalls, pc>>

NextCalls == CallAgain \/ CallerWrites

SpecCalls == InitCalls /\ [][NextCalls]_vars

----------------------------------------------------------------------------
(* under- and over-sampling: reduce_majority_class and increase_majority *)

\* The elements of the sequence a.
Range(a) == {a[i] : i \in DOMAIN a}

\* The elements of the set S of numbers, ascending.
RECURSIVE Ascending(_)
Ascending(S) ==
    IF S = {} THEN <<>>
    ELSE LET lo == CHOOSE v \in S : \A w \in S : v <= w
         IN  <<lo>> \o Ascending(S \ {lo})

\* np.unique(y, return_counts=True): the distinct values, ascending, and how
\* often each occurs.
unique_elements(labels) == Ascending(Range(labels))

counts_elements(labels) ==
    [k \in 1..Len(unique_elements(labels)) |->
        Cardinality({i \in DOMAIN labels : labels[i] = unique_elements(labels)[k]})]

\* counts.argmax(): the first position of the largest count.
argmax(counts) ==
    CHOOSE k \in DOMAIN counts :
        /\ \A j \in DOMAIN counts : counts[j] <= counts[k]
        /\ \A j \in DOMAIN counts : j < k => counts[j] < counts[k]

\* counts.argmin(): the first position of the smallest count.
argmin(counts) ==
    CHOOSE k \in DOMAIN counts :
        /\ \A j \in DOMAIN counts : counts[j] >= counts[k]
        /\ \A j \in DOMAIN counts : j < k => counts[j] > counts[k]

\* Variant: the class picked with argmin, as increase_majority does.
majority_class_by_argmin(labels) ==
    unique_elements(labels)[argmin(counts_elements(labels))]

majority_class(labels) ==
    unique_elements(labels)[argmax(counts_elements(labels))]

\* Variant: the class picked with argmax, as reduce_majority_class does.
minority_class_by_argmax(labels) ==
    unique_elements(labels)[argmax(counts_elements(labels))]

minority_class(labels) ==
    unique_elements(labels)[argmin(counts_elements(labels))]

\* np.where(y == c)[0] and np.where(y != c)[0]: the rows, ascending.
where_equal(labels, c) == Ascending({i \in DOMAIN labels : labels[i] = c})

where_differs(labels, c) == Ascending({i \in DOMAIN labels : labels[i] # c})

\* a[index]: the rows of a at the positions index, in that order.
take(a, index) == [k \in 1..Len(index) |-> a[index[k]]]

\* Variant: the draws np.random.choice(a, size, replace=False) can return;
\* there is none when size exceeds the rows available, and the call raises.
choice_without_replacement(a, size) ==
    {d \in [1..size -> Range(a)] : \A i, j \in 1..size : i # j => d[i] # d[j]}

\* The draws np.random.choice(a, size, replace=True) can return.
choice_with_replacement(a, size) == [1..size -> Range(a)]

\* The orders np.random.permutation(n) can return.
permutation(n) == Permutations(1..n)

\* reduce_majority_class, for the draw and the shuffle np.random returned.
reduce_majority_class(features, labels, size, restricted_sample_index, random_index) ==
    LET minority_index == where_differs(labels, majority_class(labels))
        X_combined == take(features, restricted_sample_index)
                          \o take(features, minority_index)
        y_combined == take(labels, restricted_sample_index)
                          \o take(labels, minority_index)
    IN  [X_new |-> take(X_combined, random_index),
         y_new |-> take(y_combined, random_index)]

\* increase_majority, for the draw and the shuffle np.random returned.
increase_majority(features, labels, size, enhanced_sample_index, random_index) ==
    LET majority_index == where_differs(labels, minority_class(labels))
        X_combined == take(features, enhanced_sample_index)
                          \o take(features, majority_index)
        y_combined == take(labels, enhanced_sample_index)
                          \o take(labels, majority_index)
    IN  [X_new |-> take(X_combined, random_index),
         y_new |-> take(y_combined, random_index)]

\* A training set: one row per passenger, the rows told apart by their
\* number, and a 0/1 label for each.
InitSampler ==
    /\ \E n \in 1..MaxRows :
          /\ X_train_full = [i \in 1..n |-> i]
          /\ y_train_full \in SeqsOfLen({0, 1}, n)
    /\ maj_sample_size \in 0..MaxSample
    /\ X_train = <<>>
    /\ y_train = <<>>
    /\ pc = "sample"
    /\ IdleOutsideSampler

\* X_train, y_train = reduce_majority_class(X_train_full, y_train_full, maj_sample_size)
ReduceMajority ==
    /\ pc = "sample"
    /\ LET majority_index == where_equal(y_train_full, majority_class(y_train_full))
           minority_index == where_differs(y_train_full, majority_class(y_train_full))
           draws == choice_with_replacement(majority_index, maj_sample_size)
       IN  IF draws = {}
           THEN /\ pc' = "raised"
                /\ UNCHANGED <<X_train, y_train>>
           ELSE \E restricted_sample_index \in draws :
                \E random_index \in
                      permutation(maj_sample_size + Len(minority_index)) :
                   LET r == reduce_majority_class(X_train_full, y_train_full, maj_sample_size,
                                restricted_sample_index, random_index)
                   IN  /\ X_train' = r.X_new
                       /\ y_train' = r.y_new
                       /\ pc' = "reduced"
    /\ UNCHANGED <<X_train_full, y_train_full, maj_sample_size, outsideSampler>>

\* X_train, y_train = increase_majority(X_train_full, y_train_full, maj_sample_size)
IncreaseMajority ==
    /\ pc = "sample"
    /\ LET minority_index == where_equal(y_train_full, minority_class(y_train_full))
           majority_index == where_differs(y_train_full, minority_class(y_train_full))
           draws == choice_with_replacement(minority_index, maj_sample_size)
       IN  IF draws = {}
           THEN /\ pc' = "raised"
                /\ UNCHANGED <<X_train, y_train>>
           ELSE \E enhanced_sample_index \in draws :
                \E random_index \in
                      permutation(maj_sample_size + Len(majority_index)) :
                   LET r == increase_majority(X_train_full, y_train_full, maj_sample_size,
                                enhanced_sample_index, random_index)
                   IN  /\ X_train' = r.X_new
                       /\ y_train' = r.y_new
                       /\ pc' = "increased"
    /\ UNCHANGED <<X_train_full, y_train_full, maj_sample_size, outsideSampler>>

NextSampler == ReduceMajority \/ IncreaseMajority

SpecSampler == InitSampler /\ [][NextSampler]_vars

----------------------------------------------------------------------------
(* preprocessing: impute_missing_with_median on the Age column *)

\* Longest Series explored, and the largest age in it.
MaxSeries == 3

MaxAge == 3

\* series.isna(): one flag per position.
isna(series) == [i \in DOMAIN series |-> IsNaN(series[i])]

\* The values present, in the order of the Series (median skips the missing).
dropna(series) == SelectSeq(series, LAMBDA v : ~IsNaN(v))

\* A sorted sequence with one more value put in its place.
insert(sorted, v) ==
    LET before == SelectSeq(sorted, LAMBDA w : Leq(w, v))
        after  == SelectSeq(sorted, LAMBDA w : ~Leq(w, v))
    IN  before \o <<v>> \o after

RECURSIVE sort_values(_)
sort_values(values) ==
    IF values = <<>> THEN <<>>
    ELSE insert(sort_values(Tail(values)), Head(values))

\* series.median(): the middle of the sorted present values, the mean of the
\* two middle ones when their number is even, NaN when none is present.
median(series) ==
    LET v == sort_values(dropna(series))
        n == Len(v)
    IN  IF n = 0 THEN NaN
        ELSE IF n % 2 = 1 THEN v[(n + 1) \div 2]
        ELSE true_divide(float_add(v[n \div 2], v[n \div 2 + 1]), Two)

\* series[missing] = value
setitem(series, mask, value) ==
    [i \in DOMAIN series |-> IF mask[i] THEN value ELSE series[i]]

\* A name bound to the object it was given (no copy made).
copy_is_same_object(h, ref) == ref

\* _series.copy(): a new object.
copy(h, ref) == Len(h) + 1

\* The objects after object ref has been given the contents of object from.
allocate(h, ref, from) ==
    [k \in 1..(IF ref > Len(h) THEN ref ELSE Len(h)) |->
        IF k = ref THEN h[from] ELSE h[k]]

\* impute_missing_with_median(_series) on the objects h: the objects after
\* the call and the two values returned.
impute_missing_with_median(h, series0) ==
    LET series       == copy(h, series0)
        h1           == allocate(h, series, series0)
        median_value == median(h1[series])
        missing      == isna(h1[series])
        h2           == [h1 EXCEPT ![series] = setitem(h1[series], missing, median_value)]
    IN  [objects |-> h2, series |-> series, missing |-> missing]

Ages == {Fin(v, 1) : v \in 1..MaxAge} \cup {NaN}

\* The Age column as read from the file: ages, some of them missing.
InitImpute ==
    /\ \E n \in 1..MaxSeries : objects \in {<<a>> : a \in SeqsOfLen(Ages, n)}
    /\ data_Age = 1
    /\ age = 0
    /\ imputed = <<>>
    /\ pc = "impute"
    /\ IdleOutsideImpute

\* age, imputed = impute_missing_with_median(data['Age'])
Impute ==
    /\ pc = "impute"
    /\ LET r == impute_missing_with_median(objects, data_Age)
       IN  /\ objects' = r.objects
           /\ age' = r.series
           /\ imputed' = r.missing
    /\ pc' = "imputed"
    /\ UNCHANGED <<data_Age, outsideImpute>>

NextImpute == Impute

SpecImpute == InitImpute /\ [][NextImpute]_vars

----------------------------------------------------------------------------
(* the fold loop of the under-sampling sweep, for one maj_sample_size *)

\* The folds of the split; two are enough for an order to exist.
Folds == {1, 2}

\* Rows in each fold's test set, and the largest sample size of the sweep.
FoldRows == 3

MaxMajSample == 1

\* What one step of the generator can yield.
RawValues == {0, 1}

\* StratifiedKFold without shuffling splits the same way every time; here
\* fold k tests on the k-th block of FoldRows rows and trains on the rest.
test_index(k) == [j \in 1..FoldRows |-> (k - 1) * FoldRows + j]

train_index(k) ==
    Ascending((1..(Cardinality(Folds) * FoldRows)) \ Range(test_index(k)))

\* The generator state after count values have been drawn from it.
advance(state, count) == SubSeq(state, count + 1, Len(state))

\* np.random.choice(a, size, replace=True) in generator state `state`: one
\* value drawn for each element wanted.
random_choice(state, a, size) ==
    [k \in 1..size |-> a[(state[k] % Len(a)) + 1]]

\* np.random.permutation(n) in generator state `state`: a permutation of
\* 1..n that the state determines.
random_permutation(state, n) ==
    [i \in 1..n |-> ((i - 1 + state[1]) % n) + 1]

\* Values reduce_majority_class draws from the generator: one for each
\* sampled row and one for the shuffle.
draws_per_fold(size) == size + 1

\* LogisticRegression fitted on one 0/1 feature, then predict(): a row is
\* predicted 1 when the training rows with its feature value are mostly 1.
\* Standardising the feature does not change which rows share a value.
fit_predict(features, labels, X_test) ==
    LET votes(x, c) ==
            Cardinality({i \in DOMAIN features : features[i] = x /\ labels[i] = c})
    IN  [j \in DOMAIN X_test |->
            IF votes(X_test[j], 1) > votes(X_test[j], 0) THEN 1 ELSE 0]

\* The body of the fold loop for fold k, entered with the generator in
\* `state`: the split, the resampled training set, the generator afterwards
\* and the scores the loop appends.
fold_body(features, labels, k, size, state) ==
    LET full_X == take(features, train_index(k))
        full_y == take(labels, train_index(k))
        X_test == take(features, test_index(k))
        y_test == take(labels, test_index(k))
        count_of_training_died == Cardinality({i \in DOMAIN full_y : full_y[i] = 0})
        majority_index == where_equal(full_y, majority_class(full_y))
        minority_index == where_differs(full_y, majority_class(full_y))
        restricted_sample_index == random_choice(state, majority_index, size)
        random_index ==
            random_permutation(advance(state, size), size + Len(minority_index))
        sample == reduce_majority_class(full_X, full_y, size,
                      restricted_sample_index, random_index)
        y_pred_test == fit_predict(sample.X_new, sample.y_new, X_test)
        accuracy_scores ==
            calculate_accuracy(
                [type |-> "ndarray", dtype |-> "int", data |-> y_test],
                [type |-> "ndarray", dtype |-> "int", data |-> y_pred_test])
    IN  [X_train_full |-> full_X, y_train_full |-> full_y,
         X_train |-> sample.X_new, y_train |-> sample.y_new,
         random_state |-> advance(state, draws_per_fold(size)),
         scores |-> [raw_majority_count      |-> ToFloat(count_of_training_died),
                     accuracy                |-> accuracy_scores.accuracy,
                     precision               |-> accuracy_scores.precision,
                     recall                  |-> accuracy_scores.recall,
                     f1                      |-> accuracy_scores.f1,
                     predicted_positive_rate |-> accuracy_scores.predicted_positive_rate]]

ScoreNames ==
    {"raw_majority_count", "accuracy", "precision", "recall", "f1",
     "predicted_positive_rate"}

RECURSIVE float_sum(_)
float_sum(values) ==
    IF values = <<>> THEN Zero
    ELSE float_add(Head(values), float_sum(Tail(values)))

\* The score of the fold that ran first, whatever the others scored.
first_replicate(values) == values[1]

\* np.mean of a list of floats.
mean_of_replicates(values) == true_divide(float_sum(values), ToFloat(Len(values)))

\* The data before the loop: a 0/1 feature that alternates down the rows and
\* any labels that leave every fold both classes to train on; the generator
\* in any state, with as many values ahead as the loop will draw.
InitFolds ==
    /\ X_np = [i \in 1..(Cardinality(Folds) * FoldRows) |-> i % 2]
    /\ y_np \in SeqsOfLen({0, 1}, Cardinality(Folds) * FoldRows)
    /\ \A k \in Folds : Range(take(y_np, train_index(k))) = {0, 1}
    /\ maj_sample_size \in 1..MaxMajSample
    /\ random_state \in
          SeqsOfLen(RawValues, Cardinality(Folds) * draws_per_fold(maj_sample_size))
    /\ folds_left = Folds
    /\ replicate_scores = <<>>
    /\ results_mean = <<>>
    /\ processed = <<>>
    /\ drawn = <<>>
    /\ X_train_full = <<>> /\ y_train_full = <<>>
    /\ X_train = <<>> /\ y_train = <<>>
    /\ pc = "folds"
    /\ IdleOutsideFolds

\* One pass of the loop body, for a fold not yet run.  The source takes the
\* folds in ascending order; here any fold may come next.
ProcessFold ==
    /\ pc = "folds"
    /\ \E k \in folds_left :
          \E f \in {fold_body(X_np, y_np, k, maj_sample_size, random_state)} :
              /\ X_train_full' = f.X_train_full
              /\ y_train_full' = f.y_train_full
              /\ X_train' = f.X_train
              /\ y_train' = f.y_train
              /\ random_state' = f.random_state
              /\ replicate_scores' = Append(replicate_scores, f.scores)
              /\ folds_left' = folds_left \ {k}
              /\ processed' = Append(processed, k)
              /\ drawn' = Append(drawn,
                              SubSeq(random_state, 1, draws_per_fold(maj_sample_size)))
    /\ UNCHANGED <<X_np, y_np, maj_sample_size, results_mean, pc, outsideFolds>>

\* After the last fold: the mean of every list of per-fold scores.
MeanOverFolds ==
    /\ pc = "folds"
    /\ folds_left = {}
    /\ results_mean' =
          [name \in ScoreNames |->
              mean_of_replicates([j \in DOMAIN replicate_scores |->
                                     replicate_scores[j][name]])]
    /\ pc' = "done"
    /\ UNCHANGED <<X_np, y_np, random_state, folds_left, replicate_scores,
                   processed, drawn, samplerVars, outsideFolds>>

NextFolds == ProcessFold \/ MeanOverFolds

SpecFolds == InitFolds /\ [][NextFolds]_vars

----------------------------------------------------------------------------
(* the threshold sweep: for each fold, calculate_accuracy at every cutoff *)

\* Folds of the split, and the number of steps the thresholds take from 0
\* to 1.
number_of_splits == 2

MaxCutoff == 2

\* np.arange(0, 1.01, step): from 0 to 1 in equal steps.
thresholds == [i \in 1..(MaxCutoff + 1) |-> Fin(i - 1, MaxCutoff)]

\* predict_proba gives each test passenger a probability in [0, 1]; only
\* its place among the thresholds matters to the sweep.
Probabilities == Range(thresholds)

\* y_test of a fold: StratifiedKFold gives every fold both classes.
TestLabels == {<<0, 1>>, <<1, 0>>}

\* Variant: the comparison turned round.
less_equal(probabilities, cutoff) ==
    [type |-> "ndarray", dtype |-> "bool",
     data |-> [i \in DOMAIN probabilities |-> Leq(probabilities[i], cutoff)]]

\* probability_survival >= cutoff: a boolean array.
greater_equal(probabilities, cutoff) ==
    [type |-> "ndarray", dtype |-> "bool",
     data |-> [i \in DOMAIN probabilities |-> Leq(cutoff, probabilities[i])]]

\* The metrics the sweep keeps.
SweptMetrics ==
    {"accuracy", "precision", "recall", "f1", "predicted_positive_rate",
     "observed_positive_rate", "true_positive_rate", "false_positive_rate"}

\* Variant: the lists of the fold before are carried on.
lists_kept(old) == IF old = <<>> THEN [m \in SweptMetrics |-> <<>>] ELSE old

\* threshold_accuracy = [] and the like, at the start of a fold.
new_lists(old) == [m \in SweptMetrics |-> <<>>]

\* np.zeros((len(thresholds), number_of_splits)), one array per metric;
\* columns are numbered from 0.
np_zeros ==
    [m \in SweptMetrics |->
        [t \in 1..Len(thresholds) |-> [k \in 0..(number_of_splits - 1) |-> Zero]]]

\* array[:, k] = list
set_column(array, k, list) ==
    [t \in DOMAIN array |-> [array[t] EXCEPT ![k] = list[t]]]

\* sklearn.metrics.auc(x, y): the trapezoidal area, negated when x runs
\* downwards; x that runs both ways raises.
auc(x, y) ==
    LET dx(i) == float_sub(x[i + 1], x[i])
        steps == 1..(Len(x) - 1)
        trapz == float_sum([i \in steps |->
                     float_mul(dx(i), true_divide(float_add(y[i], y[i + 1]), Two))])
    IN  IF \E i \in steps : ~Leq(Zero, dx(i))
        THEN IF \A i \in steps : Leq(dx(i), Zero) THEN float_neg(trapz) ELSE Err
        ELSE trapz

InitSweep ==
    /\ sweep_y_test = <<>>
    /\ probability_survival = <<>>
    /\ folds_to_come = number_of_splits
    /\ loop_index = 0
    /\ cutoff_index = 0
    /\ threshold_lists = <<>>
    /\ results_arrays = np_zeros
    /\ results_auc = <<>>
    /\ returned = <<>>
    /\ column_writes = [k \in 0..(number_of_splits - 1) |-> 0]
    /\ pc = "fold"
    /\ IdleOutsideSweep

\* The head of the fold loop: the split yields its next fold, the per-fold
\* lists are created, the classifier is fitted and gives its probabilities.
StartFold ==
    /\ pc = "fold"
    /\ folds_to_come > 0
    /\ folds_to_come' = folds_to_come - 1
    /\ threshold_lists' = new_lists(threshold_lists)
    /\ sweep_y_test' \in TestLabels
    /\ probability_survival' \in SeqsOfLen(Probabilities, Len(sweep_y_test'))
    /\ cutoff_index' = 1
    /\ pc' = "cutoff"
    /\ UNCHANGED <<loop_index, results_arrays, results_auc, returned,
                   column_writes, outsideSweep>>

\* One pass of the inner loop: predict at the cutoff, call
\* calculate_accuracy, append its metrics to the per-fold lists.
Cutoff ==
    /\ pc = "cutoff"
    /\ cutoff_index <= Len(thresholds)
    /\ \E scores \in
          {calculate_accuracy(
              [type |-> "ndarray", dtype |-> "int", data |-> sweep_y_test],
              greater_equal(probability_survival, thresholds[cutoff_index]))} :
          /\ threshold_lists' =
                [m \in SweptMetrics |-> Append(threshold_lists[m], scores[m])]
          /\ returned' = Append(returned,
                [fold |-> loop_index, threshold |-> cutoff_index, accuracy |-> scores])
    /\ cutoff_index' = cutoff_index + 1
    /\ UNCHANGED <<sweep_y_test, probability_survival, folds_to_come, loop_index,
                   results_arrays, results_auc, column_writes, pc, outsideSweep>>

\* After the inner loop: the lists go into column loop_index of the results
\* arrays, the ROC AUC is appended, loop_index goes up.  A list of another
\* length than the column, or a column that does not exist, raises.
EndFold ==
    /\ pc = "cutoff"
    /\ cutoff_index > Len(thresholds)
    /\ \E roc_auc \in {auc(threshold_lists["false_positive_rate"],
                           threshold_lists["true_positive_rate"])} :
          IF \/ loop_index \notin 0..(number_of_splits - 1)
             \/ \E m \in SweptMetrics : Len(threshold_lists[m]) # Len(thresholds)
             \/ roc_auc = Err
          THEN /\ pc' = "raised"
               /\ UNCHANGED <<results_arrays, results_auc, loop_index, column_writes>>
          ELSE /\ results_arrays' =
                     [m \in SweptMetrics |->
                         set_column(results_arrays[m], loop_index, threshold_lists[m])]
               /\ column_writes' = [column_writes EXCEPT ![loop_index] = @ + 1]
               /\ results_auc' = Append(results_auc, roc_auc)
               /\ loop_index' = loop_index + 1
               /\ pc' = "fold"
    /\ UNCHANGED <<sweep_y_test, probability_survival, folds_to_come, cutoff_index,
                   threshold_lists, returned, outsideSweep>>

\* The split has no fold left: the loop ends.
EndSweep ==
    /\ pc = "fold"
    /\ folds_to_come = 0
    /\ pc' = "swept"
    /\ UNCHANGED <<sweepVars, outsideSweep>>

NextSweep == StartFold \/ Cutoff \/ EndFold \/ EndSweep

SpecSweep == InitSweep /\ [][NextSweep]_vars

----------------------------------------------------------------------------
(* preprocessing: the cabin loop *)

\* Most passengers explored.
MaxPassengers == 2

\* A Python str is a sequence of its characters; a value carries its type.
Str(chars) == [type |-> "str", value |-> chars]

PyInt(i) == [type |-> "int", value |-> i]

\* An empty cell of the file, read as the float NaN.
MissingCell == [type |-> "float", value |-> "nan"]

\* A cabin is a letter followed by a number, or a letter alone.
CabinLetters == {"C", "F"}

CabinNumbers == {<<>>, <<"8", "5">>}

OneCabin == {<<letter>> \o number : letter \in CabinLetters, number \in CabinNumbers}

\* A cell of the Cabin column: empty, one cabin, or two with a space between.
CabinCells ==
    {MissingCell}
    \cup {Str(c) : c \in OneCabin}
    \cup {Str(c \o <<" ">> \o d) : c \in OneCabin, d \in OneCabin}

\* astype(str) of one value: NaN becomes the text 'nan'.
astype_str(v) == IF v.type = "float" THEN Str(<<"n", "a", "n">>) ELSE v

\* value.split(' '): the pieces between the spaces, empty ones included.
RECURSIVE split(_)
split(chars) ==
    IF \A i \in DOMAIN chars : chars[i] # " " THEN <<chars>>
    ELSE LET at == CHOOSE i \in DOMAIN chars :
                       chars[i] = " " /\ \A j \in 1..(i - 1) : chars[j] # " "
         IN  <<SubSeq(chars, 1, at - 1)>> \o split(SubSeq(chars, at + 1, Len(chars)))

\* Variant: the last of the cabins.
last_of(cabins) == cabins[Len(cabins)]

\* cabins[0]
first_of(cabins) == cabins[1]

InitCabin ==
    /\ \E n \in 1..MaxPassengers : data_Cabin \in SeqsOfLen(CabinCells, n)
    /\ cabin = data_Cabin
    /\ cabin_index = 0
    /\ CabinLetter = <<>>
    /\ CabinLetterImputed = <<>>
    /\ CabinNumber = <<>>
    /\ CabinNumberImputed = <<>>
    /\ pc = "astype"
    /\ IdleOutsideCabin

\* cabin = cabin.astype(str)
ConvertCabin ==
    /\ pc = "astype"
    /\ cabin' = [i \in DOMAIN cabin |-> astype_str(cabin[i])]
    /\ cabin_index' = 1
    /\ pc' = "rows"
    /\ UNCHANGED <<data_Cabin, CabinLetter, CabinLetterImputed, CabinNumber,
                   CabinNumberImputed, outsideCabin>>

\* One pass of the loop over the rows.  Indexing an empty use_cabin raises.
CabinRow ==
    /\ pc = "rows"
    /\ cabin_index <= Len(cabin)
    /\ LET value     == cabin[cabin_index].value
           cabins    == split(value)
           use_cabin == first_of(cabins)
       IN  IF value = <<"n", "a", "n">>
           THEN /\ CabinLetter' = Append(CabinLetter, Str(<<"m", "i", "s", "s", "i", "n", "g">>))
                /\ CabinLetterImputed' = Append(CabinLetterImputed, TRUE)
                /\ CabinNumber' = Append(CabinNumber, PyInt(0))
                /\ CabinNumberImputed' = Append(CabinNumberImputed, TRUE)
                /\ cabin_index' = cabin_index + 1
                /\ pc' = pc
           ELSE IF use_cabin = <<>>
           THEN /\ pc' = "raised"
                /\ UNCHANGED <<CabinLetter, CabinLetterImputed, CabinNumber,
                               CabinNumberImputed, cabin_index>>
           ELSE /\ CabinLetter' = Append(CabinLetter, Str(<<use_cabin[1]>>))
                /\ CabinLetterImputed' = Append(CabinLetterImputed, FALSE)
                /\ IF Len(use_cabin) > 1
                   THEN /\ CabinNumber' = Append(CabinNumber, Str(Tail(use_cabin)))
                        /\ CabinNumberImputed' = Append(CabinNumberImputed, FALSE)
                   ELSE /\ CabinNumber' = Append(CabinNumber, PyInt(0))
                        /\ CabinNumberImputed' = Append(CabinNumberImputed, TRUE)
                /\ cabin_index' = cabin_index + 1
                /\ pc' = pc
    /\ UNCHANGED <<data_Cabin, cabin, outsideCabin>>

\* The rows are exhausted: the lists become columns of the data.
CabinColumns ==
    /\ pc = "rows"
    /\ cabin_index > Len(cabin)
    /\ pc' = "columns"
    /\ UNCHANGED <<cabinVars, outsideCabin>>

NextCabin == ConvertCabin \/ CabinRow \/ CabinColumns

SpecCabin == InitCabin /\ [][NextCabin]_vars

----------------------------------------------------------------------------
(* backward feature elimination *)

\* Most features explored, and the steps in which a mean ROC AUC runs from
\* 0 to 1.
MaxFeatures == 3

AucSteps == 2

\* Columns of X, in their order.
FeatureNames == <<"Pclass", "Age", "SibSp", "Parch", "Fare">>

\* The mean over the folds of a ROC AUC lies in [0, 1].
AucValues == {Fin(i, AucSteps) : i \in 0..AucSteps}

\* A name not yet bound to a value.
Unbound == [k |-> "unbound", n |-> 0, d |-> 0]

\* Variant: the comparison admits an equal drop, so a later feature wins a
\* tie.
less_or_equal(a, b) == Leq(a, b)

\* a < b on floats.
less(a, b) == ~Leq(b, a)

\* The loop over the available features, from position i on: best holds
\* best_result, best_feature and best_auc so far; aucs gives the mean k-fold
\* ROC AUC measured without each feature.
RECURSIVE for_feature(_, _, _, _, _)
for_feature(features, i, aucs, reference, best) ==
    IF i > Len(features) THEN best
    ELSE LET feature             == features[i]
             feature_auc         == aucs[feature]
             drop_in_performance == float_sub(reference, feature_auc)
         IN  for_feature(features, i + 1, aucs, reference,
                 IF less(drop_in_performance, best.result)
                 THEN [result  |-> drop_in_performance,
                       feature |-> feature,
                       auc     |-> feature_auc]
                 ELSE best)

\* list.remove(x): the list without the first x.
remove(list, x) ==
    LET at == CHOOSE i \in DOMAIN list : list[i] = x /\ \A j \in 1..(i - 1) : list[j] # x
    IN  SubSeq(list, 1, at - 1) \o SubSeq(list, at + 1, Len(list))

InitElimination ==
    /\ \E n \in 1..MaxFeatures :
          /\ available_features = SubSeq(FeatureNames, 1, n)
          /\ number_of_features = n
    /\ chosen_features = <<>>
    /\ roc_auc_by_feature_number = <<>>
    /\ reference_auc = One
    /\ best_auc = Unbound
    /\ run = 0
    /\ available_before = <<>>
    /\ reference_before = <<>>
    /\ feature_aucs = <<>>
    /\ pc = "rounds"
    /\ IdleOutsideElimination

\* One pass of the while loop: every available feature is left out in turn
\* and the k-fold mean ROC AUC measured; the best is recorded and removed.
\* best_auc unbound at the append raises, as does removing ''.
Round ==
    /\ pc = "rounds"
    /\ Len(available_features) > 1
    /\ \E aucs \in [Range(available_features) -> AucValues] :
       \E best \in {for_feature(available_features, 1, aucs, reference_auc,
                        [result |-> One, feature |-> "", auc |-> best_auc])} :
          /\ feature_aucs' = aucs
          /\ best_auc' = best.auc
          /\ IF best.auc = Unbound
             THEN /\ pc' = "raised"
                  /\ UNCHANGED <<roc_auc_by_feature_number, chosen_features,
                                 available_features, reference_auc>>
             ELSE IF best.feature = ""
             THEN /\ roc_auc_by_feature_number' = Append(roc_auc_by_feature_number, best.auc)
                  /\ chosen_features' = Append(chosen_features, best.feature)
                  /\ pc' = "raised"
                  /\ UNCHANGED <<available_features, reference_auc>>
             ELSE /\ roc_auc_by_feature_number' = Append(roc_auc_by_feature_number, best.auc)
                  /\ chosen_features' = Append(chosen_features, best.feature)
                  /\ available_features' = remove(available_features, best.feature)
                  /\ reference_auc' = best.auc
                  /\ pc' = pc
    /\ run' = run + 1
    /\ available_before' = available_features
    /\ reference_before' = reference_auc
    /\ UNCHANGED <<number_of_features, outsideElimination>>

\* After the loop: the last remaining feature is added, with the value 0.
LastFeature ==
    /\ pc = "rounds"
    /\ Len(available_features) <= 1
    /\ chosen_features' = chosen_features \o available_features
    /\ roc_auc_by_feature_number' = Append(roc_auc_by_feature_number, Zero)
    /\ pc' = "selected"
    /\ UNCHANGED <<available_features, reference_auc, best_auc, run,
                   number_of_features, available_before, reference_before,
                   feature_aucs, outsideElimination>>

NextElimination == Round \/ LastFeature

SpecElimination == InitElimination /\ [][NextElimination]_vars

----------------------------------------------------------------------------
(* the pair counts, taken position by position from the caller's sequences *)

N == Len(observed.data)

Label(x, i) == AsInt(x, i)

\* The labels of x as a sequence of 0/1, whatever carries them.
LabelsOf(x) == [i \in 1..Len(x.data) |-> Label(x, i)]

Pairs(o, p) ==
    Cardinality({i \in 1..N : Label(observed, i) = o /\ Label(predicted, i) = p})

TP == Pairs(1, 1)

FP == Pairs(0, 1)

TN == Pairs(0, 0)

FN == Pairs(1, 0)

Returned == pc = "returned"

\* x lies in [0, 1].
InUnit(x) == IsFinite(x) /\ Leq(Zero, x) /\ Leq(x, One)

MetricNames ==
    {"observed_positive_rate", "observed_negative_rate",
     "predicted_positive_rate", "predicted_negative_rate",
     "accuracy", "precision", "recall", "f1", "sensitivity", "specificity",
     "positive_likelihood", "negative_likelihood",
     "false_positive_rate", "false_negative_rate",
     "true_positive_rate", "true_negative_rate",
     "positive_predictive_value", "negative_predictive_value"}

----------------------------------------------------------------------------
(* C1 *)

\* C1: for equal-length 0/1 sequences of length N >= 1 the accuracy returned
\* is (TP+TN)/N, TP and TN being the numbers of positions where both
\* sequences are 1, respectively both are 0.
C1_AccuracyIsAgreement ==
    Returned => results.accuracy = Fin(TP + TN, N)

\* A call on sequences with agreements of both kinds and a disagreement.
C1_Witness ==
    Returned /\ TP >= 1 /\ TN >= 1 /\ FP + FN >= 1
             /\ results.accuracy = Fin(TP + TN, N)

----------------------------------------------------------------------------
(* C2 *)

\* C2: precision = TP/(TP+FP), recall = TP/(TP+FN) and specificity =
\* TN/(TN+FP), each whenever its denominator is not zero.
C2_PrecisionRecallSpecificity ==
    Returned =>
        /\ (TP + FP # 0 => results.precision = Fin(TP, TP + FP))
        /\ (TP + FN # 0 => results.recall = Fin(TP, TP + FN))
        /\ (TN + FP # 0 => results.specificity = Fin(TN, TN + FP))

\* A call where all four counts are positive and precision differs from recall.
C2_Witness ==
    Returned /\ TP >= 1 /\ FP >= 1 /\ TN >= 1 /\ FN >= 1 /\ FP # FN
             /\ results.precision = Fin(TP, TP + FP)
             /\ results.recall = Fin(TP, TP + FN)

----------------------------------------------------------------------------
(* C3 *)

\* C3: the positive predictive value is the chance of a true positive given
\* a positive prediction, TP/(TP+FP), whenever something is predicted
\* positive.
C3_PositivePredictiveValue ==
    (Returned /\ TP + FP >= 1) =>
        results.positive_predictive_value = Fin(TP, TP + FP)

----------------------------------------------------------------------------
(* C4 *)

\* C4: the negative predictive value is the chance of a true negative given
\* a negative prediction, TN/(TN+FN), whenever something is predicted
\* negative.
C4_NegativePredictiveValue ==
    (Returned /\ TN + FN >= 1) =>
        results.negative_predictive_value = Fin(TN, TN + FN)

----------------------------------------------------------------------------
(* C5 *)

NonFinite(x) == x.k \in {"nan", "inf"}

----------------------------------------------------------------------------
(* C6 *)

----------------------------------------------------------------------------
(* C7 *)

ExampleObserved == <<1, 1, 0, 0, 1>>

ExamplePredicted == <<1, 0, 0, 1, 1>>

OnExample ==
    LabelsOf(observed) = ExampleObserved /\ LabelsOf(predicted) = ExamplePredicted

\* C7: f1 is 2*precision*recall/(precision+recall), which is
\* 2TP/(2TP+FP+FN) from the pair counts whenever precision+recall > 0;
\* observed=[1,1,0,0,1], predicted=[1,0,0,1,1] gives TP=2, FP=1, FN=1, TN=1,
\* accuracy 3/5, precision = recall = f1 = 2/3 and specificity 1/2.
C7_F1 ==
    Returned =>
        /\ results.f1 =
              float_mul(Two,
                  true_divide(float_mul(results.precision, results.recall),
                              float_add(results.precision, results.recall)))
        /\ (/\ IsFinite(results.precision)
            /\ IsFinite(results.recall)
            /\ ~Leq(float_add(results.precision, results.recall), Zero))
           => results.f1 = Fin(2 * TP, 2 * TP + FP + FN)
        /\ OnExample =>
              /\ TP = 2 /\ FP = 1 /\ FN = 1 /\ TN = 1
              /\ results.accuracy = Fin(3, 5)
              /\ results.precision = Fin(2, 3)
              /\ results.recall = Fin(2, 3)
              /\ results.f1 = Fin(2, 3)
              /\ results.specificity = Fin(1, 2)

\* The call on the literal example.
C7_Witness == Returned /\ OnExample /\ results.f1 = Fin(2, 3)

----------------------------------------------------------------------------
(* C8 *)

\* C8: false_positive_rate = 1 - specificity, false_negative_rate =
\* 1 - recall, positive_likelihood = recall/(1 - specificity) and
\* negative_likelihood = (1 - recall)/specificity; so with both classes
\* observed, false_positive_rate = FP/(FP+TN) and false_negative_rate =
\* FN/(FN+TP).
C8_RatesAndLikelihoods ==
    Returned =>
        /\ results.false_positive_rate = float_sub(One, results.specificity)
        /\ results.false_negative_rate = float_sub(One, results.recall)
        /\ results.positive_likelihood =
              true_divide(results.recall, float_sub(One, results.specificity))
        /\ results.negative_likelihood =
              true_divide(float_sub(One, results.recall), results.specificity)
        /\ (TP + FN >= 1 /\ TN + FP >= 1) =>
              /\ results.false_positive_rate = Fin(FP, FP + TN)
              /\ results.false_negative_rate = Fin(FN, FN + TP)

\* A call with both classes observed and errors of both kinds.
C8_Witness ==
    Returned /\ TP >= 1 /\ TN >= 1 /\ FP >= 1 /\ FN >= 1 /\ FP * (FN + TP) # FN * (FP + TN)
             /\ results.false_positive_rate = Fin(FP, FP + TN)

----------------------------------------------------------------------------
(* C9 *)

\* C9: every result holds all the named metrics, and in it sensitivity and
\* true_positive_rate are the recall and true_negative_rate is the
\* specificity.
C9_AllMetricsAndAliases ==
    Returned =>
        /\ DOMAIN results = MetricNames
        /\ results.sensitivity = results.recall
        /\ results.true_positive_rate = results.recall
        /\ results.true_negative_rate = results.specificity

\* A result whose recall and specificity differ.
C9_Witness ==
    Returned /\ IsFinite(results.recall) /\ IsFinite(results.specificity)
             /\ results.recall # results.specificity
             /\ results.true_negative_rate = results.specificity

----------------------------------------------------------------------------
(* C10 *)

\* C10: the accuracy lies in [0,1], and each of precision, recall,
\* specificity and f1 lies in [0,1] whenever its denominator is not zero.
C10_UnitInterval ==
    Returned =>
        /\ InUnit(results.accuracy)
        /\ (TP + FP # 0 => InUnit(results.precision))
        /\ (TP + FN # 0 => InUnit(results.recall))
        /\ (TN + FP # 0 => InUnit(results.specificity))
        /\ (TP # 0 => InUnit(results.f1))
        /\ \A m \in {"precision", "recall", "specificity", "f1"} :
              IsFinite(results[m]) => InUnit(results[m])

\* A call where all five values are defined and strictly inside (0,1).
C10_Witness ==
    /\ Returned /\ TP >= 1 /\ FP >= 1 /\ TN >= 1 /\ FN >= 1
    /\ \A m \in {"accuracy", "precision", "recall", "specificity", "f1"} :
          /\ InUnit(results[m])
          /\ results[m] # Zero
          /\ results[m] # One

----------------------------------------------------------------------------
(* C11 *)

\* C11: for any non-empty label sequence s over {0,1},
\* calculate_accuracy(s, s) returns accuracy 1.0.
C11_SelfAgreement ==
    (Returned /\ LabelsOf(predicted) = LabelsOf(observed)) =>
        results.accuracy = One

\* A call on a sequence holding both classes, passed as both arguments.
C11_Witness ==
    /\ Returned /\ LabelsOf(predicted) = LabelsOf(observed)
    /\ TP >= 1 /\ TN >= 1
    /\ results.accuracy = One

----------------------------------------------------------------------------
(* C12 *)

\* predicted is observed with every label flipped.
IsComplement ==
    \A i \in 1..N : Label(predicted, i) = 1 - Label(observed, i)

\* C12: if predicted is the element-wise complement of observed, the
\* accuracy returned is 0.0, for every non-empty observed over {0,1}.
C12_ComplementAccuracy ==
    (Returned /\ IsComplement) => results.accuracy = Zero

\* A call on a sequence holding both classes and its complement.
C12_Witness ==
    /\ Returned /\ IsComplement
    /\ FP >= 1 /\ FN >= 1
    /\ results.accuracy = Zero

----------------------------------------------------------------------------
(* C14 *)

OnScenario ==
    /\ LabelsOf(observed) = <<0, 0, 0, 0>>
    /\ LabelsOf(predicted) = <<0, 0, 1, 0>>

\* C14: on observed=[0,0,0,0], predicted=[0,0,1,0] the call returns, without
\* raising, accuracy 0.75, specificity 0.75, false_positive_rate 0.25 and a
\* NaN recall.
C14_Scenario ==
    OnScenario =>
        /\ pc # "raised"
        /\ Returned =>
              /\ results.accuracy = Fin(3, 4)
              /\ results.specificity = Fin(3, 4)
              /\ results.false_positive_rate = Fin(1, 4)
              /\ IsNaN(results.recall)

\* The call on the scenario, returned.
C14_Witness == Returned /\ OnScenario /\ IsNaN(results.recall)

----------------------------------------------------------------------------
(* C13 *)

\* The observed elements that are neither 0 nor 1.
OtherObserved == Cardinality({i \in 1..N : Label(observed, i) \notin {0, 1}})

ObservedRateSum ==
    float_add(results.observed_positive_rate, results.observed_negative_rate)

\* C13 as stated: for any input, validated or not,
\* observed_positive_rate + observed_negative_rate = 1.
C13_AsStated == Returned => ObservedRateSum = One

\* C13 amended: observed_positive_rate + observed_negative_rate = 1 for
\* every observed sequence of length >= 1 that holds only 0 and 1; an element
\* that is neither is counted in neither rate, and the sum is then
\* (N - number of such elements)/N, below 1.
C13_RatesPartition ==
    Returned =>
        /\ ObservedRateSum = Fin(N - OtherObserved, N)
        /\ (OtherObserved = 0 => ObservedRateSum = One)
        /\ (OtherObserved >= 1 => ObservedRateSum # One)

\* A call on a 0/1 observed sequence holding both classes.
C13_Witness ==
    /\ Returned /\ OtherObserved = 0
    /\ \E i \in 1..N : Label(observed, i) = 1
    /\ \E i \in 1..N : Label(observed, i) = 0
    /\ ObservedRateSum = One

----------------------------------------------------------------------------
(* C15 *)

----------------------------------------------------------------------------
(* C16 *)

SameArguments(c, d) ==
    LabelsOf(c.observed) = LabelsOf(d.observed)
        /\ LabelsOf(c.predicted) = LabelsOf(d.predicted)

\* C16: the function keeps no state between calls: two calls with equal
\* arguments return the same value for every metric, whatever was called
\* before or in between, and every call hands back a mapping of its own, so
\* that a mapping changes only when its own caller writes to it.
C16_NoStateBetweenCalls ==
    \A i \in 1..Len(history) :
        /\ \A j \in 1..Len(history) :
              /\ (SameArguments(history[i], history[j]) =>
                     history[i].returned = history[j].returned)
              /\ (i # j => history[i].ref # history[j].ref)
        /\ (~history[i].written => heap[history[i].ref] = history[i].returned)

\* Two calls with equal arguments and a different call in between; the caller
\* has written to the first mapping and the last still holds what was returned.
C16_Witness ==
    /\ Len(history) >= 3
    /\ \E i, j \in 1..Len(history) :
          /\ i + 1 < j
          /\ ~SameArguments(history[i], history[i + 1])
          /\ SameArguments(history[i], history[j])
          /\ history[i].written /\ ~history[j].written
          /\ heap[history[i].ref] # history[i].returned
          /\ heap[history[j].ref] = history[j].returned

----------------------------------------------------------------------------
(* C18 *)

\* How often v occurs in the sequence a.
Count(a, v) == Cardinality({i \in DOMAIN a : a[i] = v})

Smallest(S) == CHOOSE v \in S : \A w \in S : v <= w

\* The labels of the training set that no other label outnumbers, and those
\* that outnumber no other.
MostFrequent ==
    {v \in Range(y_train_full) :
        \A w \in Range(y_train_full) :
            Count(y_train_full, v) >= Count(y_train_full, w)}

LeastFrequent ==
    {v \in Range(y_train_full) :
        \A w \in Range(y_train_full) :
            Count(y_train_full, v) <= Count(y_train_full, w)}

\* Every output row is an input row, with the label it had.
RowsKeepTheirLabel ==
    /\ Len(X_train) = Len(y_train)
    /\ \A k \in 1..Len(X_train) :
          /\ X_train[k] \in 1..Len(y_train_full)
          /\ y_train[k] = y_train_full[X_train[k]]

\* The class c occurs exactly maj_sample_size times in the output, and every
\* input row of another class exactly once.
Resampled(c) ==
    /\ Count(y_train, c) = maj_sample_size
    /\ \A i \in 1..Len(y_train_full) :
          y_train_full[i] # c => Count(X_train, i) = 1

\* C18: reduce_majority_class(X, y, n) returns the majority class of y (its
\* most frequent label; label 0 on a tie) exactly n times, each of those rows
\* a majority row of the input, and every minority row exactly once; it does
\* not raise when n exceeds the majority rows available.
C18_ReduceMajority ==
    /\ pc # "raised"
    /\ pc = "reduced" =>
          /\ RowsKeepTheirLabel
          /\ Resampled(Smallest(MostFrequent))

\* A reduced training set asked for more majority rows than there were, with
\* a minority row in it.
C18_Witness ==
    /\ pc = "reduced"
    /\ Cardinality(MostFrequent) = 1
    /\ maj_sample_size > Count(y_train_full, Smallest(MostFrequent))
    /\ \E i \in 1..Len(y_train_full) : y_train_full[i] # Smallest(MostFrequent)
    /\ Resampled(Smallest(MostFrequent))

----------------------------------------------------------------------------
(* C19 *)

----------------------------------------------------------------------------
(* C20 *)

\* The k-th smallest of the values: fewer than k are below it and at least k
\* are not above it.
KthSmallest(values, k) ==
    CHOOSE v \in Range(values) :
        /\ Cardinality({i \in DOMAIN values : ~Leq(v, values[i])}) < k
        /\ Cardinality({i \in DOMAIN values : Leq(values[i], v)}) >= k

\* The median of the values of a Series that are not missing.
MedianOfPresent(input) ==
    LET present == SelectSeq(input, LAMBDA v : ~IsNaN(v))
        n       == Len(present)
    IN  IF n = 0 THEN NaN
        ELSE IF n % 2 = 1 THEN KthSmallest(present, (n + 1) \div 2)
        ELSE LET a == KthSmallest(present, n \div 2)
                 b == KthSmallest(present, n \div 2 + 1)
             IN  Fin(a.n * b.d + b.n * a.d, 2 * a.d * b.d)

\* C20: impute_missing_with_median leaves the Series it is given unchanged;
\* the Series it returns has the input's value wherever one was present and
\* the median of the present values wherever one was missing, and the flags
\* it returns are True exactly at the missing positions.
C20_ImputeMedian ==
    [][(pc = "impute" /\ pc' = "imputed") =>
          LET input  == objects[data_Age]
              output == objects'[age']
          IN  /\ data_Age' = data_Age
              /\ objects'[data_Age] = input
              /\ DOMAIN output = DOMAIN input
              /\ \A i \in DOMAIN input :
                    output[i] = IF IsNaN(input[i]) THEN MedianOfPresent(input)
                                ELSE input[i]
              /\ imputed' = [i \in DOMAIN input |-> IsNaN(input[i])]]_vars

\* An Age column with a missing value between two different ages, after the
\* call: the returned Series holds their mean there, the column still NaN.
C20_Witness ==
    /\ pc = "imputed"
    /\ age # data_Age
    /\ \E i \in DOMAIN objects[data_Age] :
          /\ IsNaN(objects[data_Age][i])
          /\ imputed[i]
          /\ objects[age][i] = Fin(3, 2)

----------------------------------------------------------------------------
(* C17 *)

RECURSIVE Flatten(_)
Flatten(seqs) == IF seqs = <<>> THEN <<>> ELSE Head(seqs) \o Flatten(Tail(seqs))

\* The generator as it was when the loop began: what the folds have drawn,
\* then what is left.
StateAtLoopStart == Flatten(drawn) \o random_state

\* What fold k draws, and what it scores, when the folds run in ascending
\* order from that state, as they do in the source.
SequentialDraws(k) ==
    SubSeq(StateAtLoopStart,
           (k - 1) * draws_per_fold(maj_sample_size) + 1,
           k * draws_per_fold(maj_sample_size))

SequentialScores(k) ==
    fold_body(X_np, y_np, k, maj_sample_size,
              advance(StateAtLoopStart,
                      (k - 1) * draws_per_fold(maj_sample_size))).scores

\* The sum of a score over the folds S, given every fold's scores.
RECURSIVE SumOver(_, _, _)
SumOver(scores, S, name) ==
    IF S = {} THEN Zero
    ELSE LET k == CHOOSE k \in S : TRUE
         IN  float_add(scores[k][name], SumOver(scores, S \ {k}, name))

\* The scores of folds 1..n of the sequential loop, in a list.
RECURSIVE SequentialReplicates(_)
SequentialReplicates(n) ==
    IF n = 0 THEN <<>>
    ELSE Append(SequentialReplicates(n - 1), SequentialScores(n))

\* The mean of every score over the folds.
MeansOver(scores) ==
    [name \in ScoreNames |->
        true_divide(SumOver(scores, Folds, name), ToFloat(Cardinality(Folds)))]

\* The means are those the sequential loop arrives at.
SameAsSequential ==
    \A scores \in {SequentialReplicates(Cardinality(Folds))} :
        results_mean = MeansOver(scores)

\* Every fold drew from the generator what it draws in the sequential loop.
SameDraws ==
    \A j \in DOMAIN processed : drawn[j] = SequentialDraws(processed[j])

----------------------------------------------------------------------------
(* C24 *)

\* The labels of x in an integer array.
AsIntegerArray(x) == [type |-> "ndarray", dtype |-> "int", data |-> LabelsOf(x)]

\* C24: calculate_accuracy returns the same value for every metric whatever
\* carries the labels (a list, an integer or float array of 0/1, or a
\* boolean array): what it returns is what it returns for the same labels
\* in two integer arrays.
C24_RepresentationIndependent ==
    Returned =>
        results = calculate_accuracy(AsIntegerArray(observed), AsIntegerArray(predicted))

\* A call given a list and a boolean array, with every kind of pair present.
C24_Witness ==
    /\ Returned
    /\ observed.type = "list"
    /\ predicted.dtype = "bool"
    /\ TP >= 1 /\ FP >= 1 /\ TN >= 1 /\ FN >= 1
    /\ results = calculate_accuracy(AsIntegerArray(observed), AsIntegerArray(predicted))

----------------------------------------------------------------------------
(* C27 *)

AllFinite == \A m \in MetricNames : IsFinite(results[m])

\* C27: on 0/1 sequences of equal length every metric returned is finite
\* exactly when TP >= 1, FP >= 1 and TN >= 1; precision is NaN when nothing
\* is predicted positive, and positive_likelihood is infinite when FP = 0
\* with TP >= 1 and TN >= 1.
C27_FiniteIffThreeCounts ==
    Returned =>
        /\ AllFinite <=> (TP >= 1 /\ FP >= 1 /\ TN >= 1)
        /\ (TP + FP = 0) => IsNaN(results.precision)
        /\ (FP = 0 /\ TP >= 1 /\ TN >= 1) => results.positive_likelihood.k = "inf"

\* A call with no false negative whose metrics are all finite.
C27_Witness ==
    /\ Returned
    /\ TP >= 1 /\ FP >= 1 /\ TN >= 1 /\ FN = 0
    /\ AllFinite

----------------------------------------------------------------------------
(* C25 *)

\* No entry of the list is above an earlier one.
NeverIncreases(list) ==
    \A i, j \in DOMAIN list :
        i < j => /\ IsFinite(list[i]) /\ IsFinite(list[j])
                 /\ Leq(list[j], list[i])

\* C25: within a fold of the threshold sweep, as the cutoff goes up the
\* predicted_positive_rate, true_positive_rate and false_positive_rate
\* returned never increase; at cutoff 0 everyone is predicted positive, so
\* recall and false_positive_rate are 1 when the test labels hold both
\* classes.
C25_RatesFallWithCutoff ==
    pc = "cutoff" =>
        /\ NeverIncreases(threshold_lists["predicted_positive_rate"])
        /\ NeverIncreases(threshold_lists["true_positive_rate"])
        /\ NeverIncreases(threshold_lists["false_positive_rate"])
        /\ (cutoff_index > 1 /\ Range(sweep_y_test) = {0, 1}) =>
              /\ threshold_lists["predicted_positive_rate"][1] = One
              /\ threshold_lists["recall"][1] = One
              /\ threshold_lists["false_positive_rate"][1] = One

\* A fold swept to the end whose three rates start at 1 and have fallen.
C25_Witness ==
    /\ pc = "cutoff"
    /\ cutoff_index > Len(thresholds)
    /\ \A m \in {"predicted_positive_rate", "true_positive_rate", "false_positive_rate"} :
          /\ threshold_lists[m][1] = One
          /\ threshold_lists[m][Len(thresholds)] # One
          /\ NeverIncreases(threshold_lists[m])

----------------------------------------------------------------------------
(* C26 *)

\* What calculate_accuracy returned for threshold t on fold k.
ReturnedFor(t, k) ==
    {returned[i].accuracy : i \in {j \in DOMAIN returned :
                                     returned[j].fold = k /\ returned[j].threshold = t}}

\* C26: when the fold loop of the threshold sweep ends, loop_index equals
\* number_of_splits and cell (t, k) of each results array holds the metric
\* calculate_accuracy returned for threshold t on fold k; every column has
\* been written exactly once, and the per-fold lists had len(thresholds)
\* entries when they were copied in, so that no copy raised.
C26_ResultsArraysFilled ==
    /\ pc # "raised"
    /\ (pc = "fold" /\ loop_index > 0) =>
          \A m \in SweptMetrics : Len(threshold_lists[m]) = Len(thresholds)
    /\ pc = "swept" =>
          /\ loop_index = number_of_splits
          /\ \A k \in 0..(number_of_splits - 1) :
                /\ column_writes[k] = 1
                /\ \A t \in 1..Len(thresholds) :
                      \E scores \in ReturnedFor(t, k) :
                          /\ ReturnedFor(t, k) = {scores}
                          /\ \A m \in SweptMetrics :
                                results_arrays[m][t][k] = scores[m]

\* The loop ended with two folds that scored differently at some threshold.
C26_Witness ==
    /\ pc = "swept"
    /\ loop_index = number_of_splits
    /\ \E t \in 1..Len(thresholds) :
          /\ results_arrays["accuracy"][t][0] # results_arrays["accuracy"][t][1]
          /\ \E scores \in ReturnedFor(t, 1) :
                results_arrays["accuracy"][t][1] = scores["accuracy"]

----------------------------------------------------------------------------
(* C23 *)

\* The text of a cell up to its first space: the first cabin.
FirstCabin(chars) ==
    LET spaces == {i \in DOMAIN chars : chars[i] = " "}
        end    == IF spaces = {} THEN Len(chars)
                  ELSE (CHOOSE i \in spaces : \A j \in spaces : i <= j) - 1
    IN  SubSeq(chars, 1, end)

\* What the loop is to append for a cell of the Cabin column.
CabinEntry(cell) ==
    IF cell.type = "float"
    THEN [letter |-> Str(<<"m", "i", "s", "s", "i", "n", "g">>), letter_imputed |-> TRUE,
          number |-> PyInt(0), number_imputed |-> TRUE]
    ELSE LET first == FirstCabin(cell.value)
         IN  [letter |-> Str(SubSeq(first, 1, 1)), letter_imputed |-> FALSE,
              number |-> IF Len(first) = 1 THEN PyInt(0)
                         ELSE Str(SubSeq(first, 2, Len(first))),
              number_imputed |-> Len(first) = 1]

\* The entries the four lists hold for passenger i.
Appended(i) ==
    [letter |-> CabinLetter[i], letter_imputed |-> CabinLetterImputed[i],
     number |-> CabinNumber[i], number_imputed |-> CabinNumberImputed[i]]

\* Two Python values are the same: of one type, with one content.
SameValue(a, b) == a.type = b.type /\ a.value = b.value

\* The lists hold for passenger i what the loop is to append for the cell.
RightEntry(i, cell) ==
    /\ SameValue(CabinLetter[i], CabinEntry(cell).letter)
    /\ CabinLetterImputed[i] = CabinEntry(cell).letter_imputed
    /\ SameValue(CabinNumber[i], CabinEntry(cell).number)
    /\ CabinNumberImputed[i] = CabinEntry(cell).number_imputed

\* C23: the cabin loop appends one entry per passenger to each of the four
\* lists: ('missing', True, 0, True) for a missing cabin; otherwise the first
\* character of the first space-separated cabin with CabinLetterImputed
\* False, and its remaining characters with CabinNumberImputed False, or 0
\* with CabinNumberImputed True when that cabin is one character.  So
\* CabinLetterImputed True implies CabinNumberImputed True.
C23_CabinLoop ==
    /\ pc # "raised"
    /\ pc \in {"rows", "columns"} =>
          /\ Len(CabinLetter) = cabin_index - 1
          /\ Len(CabinLetterImputed) = cabin_index - 1
          /\ Len(CabinNumber) = cabin_index - 1
          /\ Len(CabinNumberImputed) = cabin_index - 1
          /\ \A i \in 1..(cabin_index - 1) :
                /\ RightEntry(i, data_Cabin[i])
                /\ CabinLetterImputed[i] => CabinNumberImputed[i]
    /\ pc = "columns" => Len(CabinLetter) = Len(data_Cabin)

\* The loop is over; one passenger had no cabin, another two cabins of which
\* the first is a letter alone.
C23_Witness ==
    /\ pc = "columns"
    /\ \E i, j \in DOMAIN data_Cabin :
          /\ data_Cabin[i].type = "float"
          /\ Appended(i).letter_imputed /\ SameValue(Appended(i).number, PyInt(0))
          /\ data_Cabin[j].type = "str"
          /\ Len(split(data_Cabin[j].value)) = 2
          /\ Len(FirstCabin(data_Cabin[j].value)) = 1
          /\ ~Appended(j).letter_imputed /\ Appended(j).number_imputed

----------------------------------------------------------------------------
(* C21 *)

\* The feature the round just run removed.
Removed == chosen_features[Len(chosen_features)]

\* C21: every round of the backward elimination removes exactly one
\* feature, a member of available_features when it is removed; so for n
\* features the loop ends after n - 1 rounds, chosen_features ends as a
\* permutation of the n features and roc_auc_by_feature_number with n
\* entries.
C21_OneFeaturePerRound ==
    /\ pc # "raised"
    /\ (pc = "rounds" /\ run > 0) =>
          /\ Removed \in Range(available_before)
          /\ Range(available_features) = Range(available_before) \ {Removed}
          /\ Len(available_features) = Len(available_before) - 1
          /\ Len(available_features) = number_of_features - run
    /\ pc = "selected" =>
          /\ run = number_of_features - 1
          /\ Len(chosen_features) = number_of_features
          /\ Range(chosen_features) = Range(SubSeq(FeatureNames, 1, number_of_features))
          /\ Len(roc_auc_by_feature_number) = number_of_features

----------------------------------------------------------------------------
(* C22 *)

\* Where the feature stands in the list.
PositionIn(list, x) == CHOOSE i \in DOMAIN list : list[i] = x

\* The drop of the mean ROC AUC below the reference when f is left out.
Drop(f) == float_sub(reference_before, feature_aucs[f])

\* C22: the feature a round removes is the available feature whose removal
\* gives the smallest drop of mean k-fold ROC AUC below the reference, the
\* first such feature on ties; its mean AUC is the value recorded for the
\* round and the reference of the next round.
C22_LeastDifferenceRemoved ==
    (pc = "rounds" /\ run > 0) =>
        /\ Removed \in Range(available_before)
        /\ \A f \in Range(available_before) :
              /\ Leq(Drop(Removed), Drop(f))
              /\ PositionIn(available_before, f) < PositionIn(available_before, Removed)
                    => Drop(f) # Drop(Removed)
        /\ roc_auc_by_feature_number[run] = feature_aucs[Removed]
        /\ reference_auc = feature_aucs[Removed]

\* A second round that removed the later of two features, the drop of the
\* earlier being larger, and a round before it that broke a tie.
C22_Witness ==
    /\ pc = "rounds"
    /\ run = 2
    /\ PositionIn(available_before, Removed) = 2
    /\ Drop(Removed) # Drop(available_before[1])
    /\ Leq(Drop(Removed), Drop(available_before[1]))
    /\ reference_auc = feature_aucs[Removed]
    /\ reference_before # One

====
